---- MODULE Spec2Model ----
(***************************************************************************)
(* A model of parse_pmsg_file (src/parse_pmsg.py), the decoder of Android  *)
(* pmsg log streams, together with the frame encoder of its test suite     *)
(* (create_pmsg_entry, src/test_parse_pmsg.py).                            *)
(*                                                                         *)
(* Representation.  Bytes are the integers 0..255 and a byte string is a   *)
(* sequence of them.  A Python str is the sequence of its code points, so  *)
(* "N/A" is <<78, 47, 65>>.  TLC's integers are 32-bit signed, hence an    *)
(* unsigned 32-bit header field (sec, nsec) is carried as its two 16-bit   *)
(* halves [hi, lo], standing for hi * 65536 + lo.  A timestamp             *)
(* datetime.fromtimestamp(sec) + timedelta(microseconds = m) is carried as *)
(* the pair [sec, micros]: the second it is based on and the whole number  *)
(* of microseconds added to it.                                            *)
(***************************************************************************)
EXTENDS Integers, Sequences, FiniteSets, TLC

VARIABLES
    input,                  \* what the caller wrote into the stream: frame descriptors
    data,                   \* the bytes of the stream f
    is_file_path,           \* whether filepath names a file or is a file-like object
    fault,                  \* the exception the resource raises, and at which operation
    verbose,                \* the verbose argument
    pos,                    \* f.tell(): the read cursor of f
    pc,                     \* where the call is: the next read of the loop, or "done"
    parsed_entries,         \* the list being built, returned at "done"
    raised,                 \* the exception that left the call, NoException if none
    origins,                \* for each record, the bytes it was made from: [start, stop)
    stderr,                 \* the diagnostics printed so far (sys.stderr, one per process)
    current_offset,         \* locals of the loop body
    entry_len,
    header_size_or_version,
    pid,
    tid,
    sec,
    nsec,
    payload_len,
    stream,                 \* the file object f: the position at which the caller
                            \* handed it over (0 for a file the call opens itself),
                            \* and whether it has been closed
    alone,                  \* what an earlier call returned, kept by the caller
    other,                  \* a second call of the process, while it is not running
    gpio_arg,               \* the call of a function of gpio_converter.py, if any
    gpio_result             \* what that call returned or raised, <<>> before it has, and
                            \* after it what the other function made of its value

vars == <<input, data, is_file_path, fault, verbose, pos, pc, parsed_entries, raised,
          origins, stderr, current_offset, entry_len, header_size_or_version, pid, tid,
          sec, nsec, payload_len, stream, alone, other, gpio_arg, gpio_result>>

----------------------------------------------------------------------------
(* Bounds of the model *)

\* the most frames written into a stream
MaxFrames == 3

\* the most bytes that follow the priority byte in an enumerated raw payload
MaxRestLen == 2

----------------------------------------------------------------------------
(* Program constants *)

MIN_HEADER_SIZE == 20

\* "V", "D", "I", "W", "E", "F"
LOG_LEVELS == (2 :> <<86>>) @@ (3 :> <<68>>) @@ (4 :> <<73>>) @@
              (5 :> <<87>>) @@ (6 :> <<69>>) @@ (7 :> <<70>>)

\* the str "N/A": level and tag of a record without payload
NA == <<78, 47, 65>>

\* the str "ErrorTag"
ErrorTag == <<69, 114, 114, 111, 114, 84, 97, 103>>

\* custom_entry_len = None
None == -1

----------------------------------------------------------------------------
(* Sequences *)

Min(a, b) == IF a <= b THEN a ELSE b

Take(s, n) == SubSeq(s, 1, Min(n, Len(s)))

Drop(s, n) == SubSeq(s, n + 1, Len(s))

RECURSIVE Concat(_)
Concat(ss) == IF ss = <<>> THEN <<>> ELSE Head(ss) \o Concat(Tail(ss))

SeqsUpTo(S, n) == UNION {[1..k -> S] : k \in 0..n}

----------------------------------------------------------------------------
(* Unsigned 32-bit values as halves *)

U32Of(n) == [hi |-> n \div 65536, lo |-> n % 65536]

U32Max == [hi |-> 65535, lo |-> 65535]

\* v // 1000 and v % 1000 for v = hi * 65536 + lo, with 65536 = 65 * 1000 + 536
U32Div1000(v) == 65 * v.hi + ((536 * v.hi + v.lo) \div 1000)

U32Mod1000(v) == (536 * v.hi + v.lo) % 1000

----------------------------------------------------------------------------
(* struct: little-endian packing and unpacking *)

\* struct.pack('<H', n), 0 <= n <= 65535
PackU16(n) == <<n % 256, n \div 256>>

\* struct.pack('<i', n), -2^31 <= n < 2^31, two's complement
PackI32(n) ==
    LET m == IF n < 0 THEN (n + 2147483647) + 1 ELSE n
        top == IF n < 0 THEN 128 ELSE 0
    IN  <<m % 256, (m \div 256) % 256, (m \div 65536) % 256, (m \div 16777216) + top>>

\* struct.pack('<I', v)
PackU32(v) == PackU16(v.lo) \o PackU16(v.hi)

\* struct.unpack('<H', b)
UnpackU16(b) == b[1] + 256 * b[2]

\* faulty variant, for comparison: the bytes taken most significant first
UnpackI32_BigEndian(b) ==
    b[4] + 256 * b[3] + 65536 * b[2]
    + 16777216 * (IF b[1] >= 128 THEN b[1] - 256 ELSE b[1])

\* faulty variant, for comparison: the sign bit dropped
UnpackI32_ZeroExtended(b) ==
    b[1] + 256 * b[2] + 65536 * b[3] + 16777216 * (b[4] % 128)

\* struct.unpack('<i', b): the top bit of the last byte is the sign
UnpackI32(b) ==
    b[1] + 256 * b[2] + 65536 * b[3]
    + 16777216 * (IF b[4] >= 128 THEN b[4] - 256 ELSE b[4])

\* struct.unpack('<I', b)
UnpackU32(b) == [hi |-> UnpackU16(SubSeq(b, 3, 4)), lo |-> UnpackU16(SubSeq(b, 1, 2))]

\* struct.pack('<HHiiII', entry_len, header_size_or_version, pid, tid, sec, nsec)
PackHeader(elen, hsv, p, t, s, ns) ==
    PackU16(elen) \o PackU16(hsv) \o PackI32(p) \o PackI32(t) \o PackU32(s) \o PackU32(ns)

----------------------------------------------------------------------------
(* str and bytes *)

\* faulty variant, for comparison: the last digit only
DecimalString_LastDigit(n) == <<48 + (n % 10)>>

\* str(n) for n >= 0: the decimal digits as code points
RECURSIVE DecimalString(_)
DecimalString(n) ==
    IF n < 10 THEN <<48 + n>> ELSE DecimalString(n \div 10) \o <<48 + (n % 10)>>

\* text.encode('utf-8') for code points below U+0800 (one- and two-byte forms)
RECURSIVE Utf8Encode(_)
Utf8Encode(text) ==
    IF text = <<>> THEN <<>>
    ELSE LET cp == Head(text)
         IN  (IF cp < 128 THEN <<cp>> ELSE <<192 + (cp \div 64), 128 + (cp % 64)>>)
             \o Utf8Encode(Tail(text))

IsContinuation(b) == 128 <= b /\ b <= 191

\* b.decode('utf-8', errors='replace') for byte strings without the lead bytes
\* 0xE0..0xF4 of three- and four-byte forms (no payload of the model holds one):
\* ASCII is itself, a two-byte lead 0xC2..0xDF with its continuation byte is one
\* code point, every other byte is replaced by U+FFFD on its own.
RECURSIVE Utf8DecodeReplace(_)
Utf8DecodeReplace(b) ==
    IF b = <<>> THEN <<>>
    ELSE IF b[1] < 128 THEN <<b[1]>> \o Utf8DecodeReplace(Tail(b))
    ELSE IF 194 <= b[1] /\ b[1] <= 223 /\ Len(b) >= 2 /\ IsContinuation(b[2])
         THEN <<(b[1] - 192) * 64 + (b[2] - 128)>> \o Utf8DecodeReplace(Drop(b, 2))
    ELSE <<65533>> \o Utf8DecodeReplace(Tail(b))

----------------------------------------------------------------------------
(* The frame encoder of the test suite *)

\* REVERSED_LOG_LEVELS.get(level_char, 0)
ReversedLogLevel(level_char) ==
    IF \E p \in DOMAIN LOG_LEVELS : LOG_LEVELS[p] = level_char
    THEN CHOOSE p \in DOMAIN LOG_LEVELS : LOG_LEVELS[p] = level_char
    ELSE 0

\* the payload create_pmsg_entry builds
EntryPayload(level_char, tag, message) ==
    LET prio == ReversedLogLevel(level_char)
    IN  IF prio # 0 \/ tag # <<>> \/ message # <<>>
        THEN <<prio>> \o Utf8Encode(tag) \o <<0>> \o Utf8Encode(message) \o <<0>>
        ELSE <<>>

\* create_pmsg_entry(pid, tid, timestamp_sec, timestamp_nsec, level_char, tag,
\*                   message, header_size_or_version, custom_entry_len)
create_pmsg_entry(p, t, s, ns, level_char, tag, message, hsv, custom_entry_len) ==
    LET payload == EntryPayload(level_char, tag, message)
        elen == IF custom_entry_len # None THEN custom_entry_len
                ELSE MIN_HEADER_SIZE + Len(payload)
    IN  PackHeader(elen, hsv, p, t, s, ns) \o payload

----------------------------------------------------------------------------
(* What is written into a stream.  A descriptor says how one segment of    *)
(* the stream was built:                                                   *)
(*   "entry"   by create_pmsg_entry (entry_len is custom_entry_len);       *)
(*   "packed"  as struct.pack('<HHiiII', ...) + payload, the way the tests *)
(*             build frames the encoder cannot;                            *)
(*   "pad"     as the four bytes struct.pack('<HH', entry_len, hsv).       *)

Entry(p, t, s, ns, level_char, tag, message, hsv, custom_entry_len) ==
    [kind |-> "entry", entry_len |-> custom_entry_len, header_size_or_version |-> hsv,
     pid |-> p, tid |-> t, sec |-> s, nsec |-> ns,
     level_char |-> level_char, tag |-> tag, message |-> message, payload |-> <<>>]

Packed(elen, hsv, p, t, s, ns, payload) ==
    [kind |-> "packed", entry_len |-> elen, header_size_or_version |-> hsv,
     pid |-> p, tid |-> t, sec |-> s, nsec |-> ns,
     level_char |-> <<>>, tag |-> <<>>, message |-> <<>>, payload |-> payload]

Pad(elen, hsv) ==
    [kind |-> "pad", entry_len |-> elen, header_size_or_version |-> hsv,
     pid |-> 0, tid |-> 0, sec |-> U32Of(0), nsec |-> U32Of(0),
     level_char |-> <<>>, tag |-> <<>>, message |-> <<>>, payload |-> <<>>]

\* the bytes of one segment
Bytes(d) ==
    CASE d.kind = "entry" ->
            create_pmsg_entry(d.pid, d.tid, d.sec, d.nsec, d.level_char, d.tag,
                              d.message, d.header_size_or_version, d.entry_len)
      [] d.kind = "packed" ->
            PackHeader(d.entry_len, d.header_size_or_version, d.pid, d.tid, d.sec, d.nsec)
            \o d.payload
      [] d.kind = "pad" -> PackU16(d.entry_len) \o PackU16(d.header_size_or_version)

\* the bytes of a sequence of segments
StreamBytes(ds) == Concat([i \in 1..Len(ds) |-> Bytes(ds[i])])

(* Sample values *)

Sec0 == U32Of(1672569055)
Nsec0 == U32Of(123000000)

LevelChars == {LOG_LEVELS[p] : p \in DOMAIN LOG_LEVELS}

\* "", "T", U+00E9, "T" U+00E9, and a tag holding a NUL
TagSamples == {<<>>, <<84>>, <<233>>, <<84, 233>>, <<84, 0, 84>>}

\* "", "M", U+00E9 "M", and messages holding NULs: at the end, inside, alone
MessageSamples == {<<>>, <<77>>, <<233, 77>>, <<77, 0>>, <<77, 0, 77>>, <<0>>}

NsecSamples == {U32Of(0), U32Of(499), U32Of(500), U32Of(501), U32Of(999), U32Of(1500),
                U32Of(2500), Nsec0, U32Of(999999999), U32Max}

SecSamples == {U32Of(0), Sec0, U32Max}

PidSamples == {0, 100, -1, 2147483647, (-2147483647) - 1}

HsvSamples == {0, 20, 24, 65535}

RawPrios == {0, 4, 8, 255}

RawBytes == {0, 65, 255}

RawPayloads == {<<p>> \o rest : p \in RawPrios, rest \in SeqsUpTo(RawBytes, MaxRestLen)}

\* payloads beyond the enumerated ones: the one of test_no_null_terminator_for_tag
\* shortened ("NoMsg" NUL), "T" NUL "Hi" NUL NUL NUL, a two-byte character in the
\* tag with a cut one in the message, a message of NULs only
ExtraPayloads ==
    { <<3, 78, 111, 77, 115, 103, 0>>,
      <<4, 84, 0, 72, 105, 0, 0, 0>>,
      <<4, 195, 169, 0, 65, 195>>,
      <<6, 84, 0, 0, 0>>,
      <<5, 84, 0, 72, 0, 105, 0>> }

(* Segments *)

LevelEntries ==
    {Entry(100, 200, Sec0, Nsec0, lc, <<84>>, <<77>>, MIN_HEADER_SIZE, None) :
        lc \in LevelChars \cup {<<88>>, NA}}

TextEntries ==
    {Entry(500, 600, Sec0, U32Of(0), <<73>>, tag, msg, MIN_HEADER_SIZE, None) :
        tag \in TagSamples, msg \in MessageSamples}

\* create_pmsg_entry adds no payload for an unknown level with empty tag and message
EmptyEntries == {Entry(300, 400, Sec0, U32Of(0), lc, <<>>, <<>>, MIN_HEADER_SIZE, None) :
                    lc \in {<<88>>, NA}}

HeaderEntries ==
    {Entry(p, 200, Sec0, Nsec0, <<68>>, <<84>>, <<77>>, MIN_HEADER_SIZE, None) :
        p \in PidSamples}
    \cup {Entry(100, t, Sec0, Nsec0, <<68>>, <<84>>, <<77>>, MIN_HEADER_SIZE, None) :
        t \in PidSamples}
    \cup {Entry(100, 200, s, Nsec0, <<68>>, <<84>>, <<77>>, MIN_HEADER_SIZE, None) :
        s \in SecSamples}
    \cup {Entry(100, 200, Sec0, ns, <<68>>, <<84>>, <<77>>, MIN_HEADER_SIZE, None) :
        ns \in NsecSamples}
    \cup {Entry(100, 200, Sec0, Nsec0, <<68>>, <<84>>, <<77>>, hsv, None) :
        hsv \in HsvSamples}

HeaderOnlyFrames ==
    {Packed(MIN_HEADER_SIZE, MIN_HEADER_SIZE, 300, 400, Sec0, ns, <<>>) : ns \in NsecSamples}

RawFrames ==
    {Packed(MIN_HEADER_SIZE + Len(pl), MIN_HEADER_SIZE, 700, 800, Sec0, U32Of(0), pl) :
        pl \in RawPayloads \cup ExtraPayloads}

\* every value of the priority byte, before the tag "T" and the message "M"
PrioFrames ==
    {Packed(MIN_HEADER_SIZE + 5, MIN_HEADER_SIZE, 700, 800, Sec0, U32Of(0),
            <<prio, 84, 0, 77, 0>>) : prio \in 0..255}

\* test_entry_len_too_small: struct.pack('<HHiiII', 10, MIN_HEADER_SIZE, 1, 2, 3, 4)
ShortFrames ==
    {Packed(n, MIN_HEADER_SIZE, 1, 2, U32Of(3), U32Of(4), <<>>) : n \in 1..(MIN_HEADER_SIZE - 1)}

Pads == {Pad(0, hsv) : hsv \in HsvSamples} \cup {Pad(n, MIN_HEADER_SIZE) : n \in {1, 19}}

\* the example payload: priority 4, "TestTag" NUL, "Hello World" NUL
ExamplePayload ==
    <<4>> \o <<84, 101, 115, 116, 84, 97, 103>> \o <<0>>
    \o <<72, 101, 108, 108, 111, 32, 87, 111, 114, 108, 100>> \o <<0>>

Example31 == Packed(31, 20, 100, 200, Sec0, Nsec0, ExamplePayload)

Example41 == Packed(41, 20, 100, 200, Sec0, Nsec0, ExamplePayload)

\* frames whose entry_len is not their length, and a whole header with entry_len 0
WrongLengthFrames ==
    {Entry(100, 200, Sec0, Nsec0, <<73>>, <<84>>, <<77>>, MIN_HEADER_SIZE, c) :
        c \in {21, 30, 65535}}
    \cup {Packed(0, MIN_HEADER_SIZE, 1, 2, U32Of(3), U32Of(4), <<>>), Example31}

RichSegments ==
    LevelEntries \cup TextEntries \cup EmptyEntries \cup HeaderEntries
    \cup HeaderOnlyFrames \cup RawFrames \cup ShortFrames \cup Pads
    \cup WrongLengthFrames \cup {Example41}

\* the segments that surround a rich one: a frame with payload and a zero-length pad
PlainSegments ==
    { Entry(101, 202, Sec0, U32Of(456000000), <<87>>, <<84>>, <<77>>, MIN_HEADER_SIZE, None),
      Pad(0, MIN_HEADER_SIZE) }

PlainSeqs == SeqsUpTo(PlainSegments, MaxFrames)

\* the plain segments before and after a rich one
Contexts ==
    {c \in SeqsUpTo(PlainSegments, MaxFrames - 1) \X SeqsUpTo(PlainSegments, MaxFrames - 1) :
        Len(c[1]) + Len(c[2]) <= MaxFrames - 1}

\* at most MaxFrames segments, at most one of them not plain; the frames of all
\* priorities stand alone
InputSeqs ==
    PlainSeqs \cup {c[1] \o <<r>> \o c[2] : r \in RichSegments, c \in Contexts}
    \cup {<<r>> : r \in PrioFrames}

\* the streams holding ds: all of its bytes, and for plain segments also every
\* prefix of them (a stream cut anywhere)
StreamsOf(ds) ==
    LET all == StreamBytes(ds)
    IN  IF ds \in PlainSeqs THEN {Take(all, k) : k \in 0..Len(all)} ELSE {all}

----------------------------------------------------------------------------
(* parse_pmsg_file *)

\* faulty variant, for comparison: a short read filled up with zero bytes
Read_Padded(p, n) ==
    LET got == SubSeq(data, p + 1, Min(p + n, Len(data)))
    IN  IF got = <<>> THEN got ELSE got \o [i \in 1..(n - Len(got)) |-> 0]

\* f.read(n) at cursor p: the bytes still there, at most n of them
Read(p, n) == SubSeq(data, p + 1, Min(p + n, Len(data)))

\* faulty variant, for comparison: the cursor one past the end of the chunk
Tell_OneMore(p, chunk) == p + Len(chunk) + 1

\* faulty variant, for comparison: the cursor left on the last byte read
Tell_OneShort(p, chunk) == IF chunk = <<>> THEN p ELSE p + Len(chunk) - 1

\* f.tell() after a read that returned chunk
Tell(p, chunk) == p + Len(chunk)

\* faulty variant, for comparison: offsets counted from 1
Diag_OneBased(sev, kind, offset) == [sev |-> sev, kind |-> kind, offset |-> offset + 1]

\* one line printed to stderr
Diag(sev, kind, offset) == [sev |-> sev, kind |-> kind, offset |-> offset]

\* the bytes from offset start up to, not including, offset stop
Span(start, stop) == [start |-> start, stop |-> stop]

\* faulty variant, for comparison: the table never consulted
LogLevel_NoTable(prio) == DecimalString(prio)

\* LOG_LEVELS.get(prio, str(prio))
LogLevel(prio) ==
    IF prio \in DOMAIN LOG_LEVELS THEN LOG_LEVELS[prio] ELSE DecimalString(prio)

\* faulty variant, for comparison: the search for the zero byte started at the priority byte
TagEndIdx_FromZero(payload) ==
    LET found == {i \in 0..(Len(payload) - 1) : payload[i + 1] = 0}
    IN  IF found = {} THEN -1 ELSE CHOOSE i \in found : \A j \in found : i <= j

\* faulty variant, for comparison: the last zero byte of the payload taken
TagEndIdx_LastZero(payload) ==
    LET found == {i \in 1..(Len(payload) - 1) : payload[i + 1] = 0}
    IN  IF found = {} THEN -1 ELSE CHOOSE i \in found : \A j \in found : j <= i

\* payload.index(b'\x00', 1): the 0-based index of the first zero byte at index 1 or
\* later, -1 for ValueError
TagEndIdx(payload) ==
    LET found == {i \in 1..(Len(payload) - 1) : payload[i + 1] = 0}
    IN  IF found = {} THEN -1 ELSE CHOOSE i \in found : \A j \in found : i <= j

\* faulty variant, for comparison: one trailing zero byte dropped, not all
EffectiveMessageEnd_StripOne(message_bytes) ==
    IF Len(message_bytes) > 0 /\ message_bytes[Len(message_bytes)] = 0
    THEN Len(message_bytes) - 1
    ELSE Len(message_bytes)

\* the loop that drops trailing zero bytes: the length of what is kept
RECURSIVE EffectiveMessageEnd(_)
EffectiveMessageEnd(message_bytes) ==
    IF Len(message_bytes) > 0 /\ message_bytes[Len(message_bytes)] = 0
    THEN EffectiveMessageEnd(SubSeq(message_bytes, 1, Len(message_bytes) - 1))
    ELSE Len(message_bytes)

\* timedelta(microseconds = nsec / 1000): the float nsec / 1000 rounded to a whole
\* number of microseconds, halves to the even one
TimedeltaMicros(ns) ==
    LET q == U32Div1000(ns)
        r == U32Mod1000(ns)
    IN  IF r > 500 \/ (r = 500 /\ q % 2 = 1) THEN q + 1 ELSE q

\* datetime.fromtimestamp(sec) + timedelta(microseconds = nsec / 1000)
Timestamp(s, ns) == [sec |-> s, micros |-> TimedeltaMicros(ns)]

LogRecord(ts, p, t, level, tag, message) ==
    [timestamp |-> ts, pid |-> p, tid |-> t, level |-> level, tag |-> tag,
     message |-> message]

\* faulty variant, for comparison: the record dropped
AppendEntry_Drop(entries, record) == entries

\* faulty variant, for comparison: the record put first
AppendEntry_Prepend(entries, record) == <<record>> \o entries

\* parsed_entries.append(record)
AppendEntry(entries, record) == Append(entries, record)

\* faulty variant, for comparison: empty strings in place of the "N/A" markers
HeaderOnlyRecord_EmptyMarkers(p, t, s, ns) ==
    LogRecord(Timestamp(s, ns), p, t, <<>>, <<>>, <<>>)

\* the record of a frame without payload
HeaderOnlyRecord(p, t, s, ns) == LogRecord(Timestamp(s, ns), p, t, NA, NA, <<>>)

\* the tag of a payload
PayloadTag(payload) ==
    LET tag_end_idx == TagEndIdx(payload)
    IN  IF tag_end_idx = -1 THEN ErrorTag
        ELSE Utf8DecodeReplace(SubSeq(payload, 2, tag_end_idx))

\* message_start_idx of a payload (0-based)
MessageStartIdx(payload) ==
    LET tag_end_idx == TagEndIdx(payload)
    IN  IF tag_end_idx = -1 THEN 1 ELSE tag_end_idx + 1

\* the message of a payload
PayloadMessage(payload) ==
    LET message_bytes == Drop(payload, MessageStartIdx(payload))
    IN  Utf8DecodeReplace(SubSeq(message_bytes, 1, EffectiveMessageEnd(message_bytes)))

\* the record of a frame with a payload of at least one byte
PayloadRecord(p, t, s, ns, payload) ==
    LogRecord(Timestamp(s, ns), p, t, LogLevel(payload[1]), PayloadTag(payload),
              PayloadMessage(payload))

----------------------------------------------------------------------------
(* Exceptions of the resource.  fault says which operation on the resource *)
(* raises: open(filepath) or the entering and seek of a file-like object   *)
(* ("open"), or the f.read at a cursor position ("read"), and the class of *)
(* the exception.  "OSError" stands for every OSError that is neither of   *)
(* its two named subclasses, "ValueError" for every other Exception.       *)

NoException == ""

NoFault == [when |-> "never", offset |-> 0, class |-> NoException]

FaultClasses == {"FileNotFoundError", "PermissionError", "OSError", "ValueError"}

\* except IOError: IOError is OSError, with its subclasses
IsIOError(cls) == cls \in {"FileNotFoundError", "PermissionError", "OSError"}

\* faulty variant, for comparison: every exception absorbed
Escapes_Absorbed(cls, path) == NoException

\* the exception that leaves the call when the resource raises cls, NoException
\* when a handler returns parsed_entries.  The handler of FileNotFoundError
\* formats a message with e, a local no 'as' clause has bound there.
Escapes(cls, path) ==
    IF cls = "FileNotFoundError" THEN (IF path THEN cls ELSE "UnboundLocalError")
    ELSE IF IsIOError(cls) THEN (IF path THEN cls ELSE NoException)
    ELSE NoException

\* the line a handler prints before it returns parsed_entries
HandlerDiag(cls) ==
    Diag("Error", IF IsIOError(cls) THEN "io_error" ELSE "unexpected_error", -1)

\* the resource raises at open / at the read at cursor p
OpenRaises == fault.when = "open"

ReadRaises(p) == fault.when = "read" /\ fault.offset = p

----------------------------------------------------------------------------
(* The call.  pc is the operation on the resource that comes next:         *)
(*   "open"         open(filepath), or entering the file-like object,      *)
(*   "read_prefix"  f.read(4) of the entry_len and header_size_or_version, *)
(*   "read_header"  f.read(16) of pid, tid, sec, nsec,                     *)
(*   "read_payload" f.read(payload_len),                                   *)
(* "done" once the call has returned parsed_entries, by a break out of the *)
(* loop or by a return, and "raised" once an exception has left the call.  *)
(* Locals not yet assigned are 0.                                          *)

\* no function of gpio_converter.py is called
NoGpioCall == [function |-> "none"]

\* a file-like object, open, as the caller hands it over at position p
OpenAt(p) == [at_call |-> p, closed |-> FALSE]

\* the locals at the start of a call
Locals ==
    /\ pc = "open"
    /\ parsed_entries = <<>>
    /\ raised = NoException
    /\ origins = <<>>
    /\ current_offset = 0
    /\ entry_len = 0
    /\ header_size_or_version = 0
    /\ pid = 0
    /\ tid = 0
    /\ sec = U32Of(0)
    /\ nsec = U32Of(0)
    /\ payload_len = 0

\* a call on a resource at its first byte
Start ==
    /\ pos = 0
    /\ stream = OpenAt(0)
    /\ Locals

\* one call on a file-like object that raises nothing
Init ==
    /\ input \in InputSeqs
    /\ data \in StreamsOf(input)
    /\ is_file_path = FALSE
    /\ fault = NoFault
    /\ verbose \in BOOLEAN
    /\ Start
    /\ stderr = <<>>
    /\ alone = <<>>
    /\ other = <<>>
    /\ gpio_arg = NoGpioCall
    /\ gpio_result = <<>>

\* faulty variant, for comparison: no case for a zero entry_len
IsZeroLength_Never(elen) == FALSE

\* entry_len == 0
IsZeroLength(elen) == elen = 0

\* faulty variant, for comparison: no check of entry_len against the header size
IsTooSmall_Never(elen) == FALSE

\* faulty variant, for comparison: a small entry_len let through when verbose
IsTooSmall_UnlessVerbose(elen) == ~verbose /\ elen < MIN_HEADER_SIZE

\* faulty variant, for comparison: the comparison one too low
IsTooSmall_OffByOne(elen) == elen < MIN_HEADER_SIZE - 1

\* entry_len < MIN_HEADER_SIZE
IsTooSmall(elen) == elen < MIN_HEADER_SIZE

\* faulty variant, for comparison: the header taken to be header_size_or_version long
PayloadLen_FromHeaderSize(elen) == elen - header_size_or_version

\* payload_len = entry_len - MIN_HEADER_SIZE
PayloadLen(elen) == elen - MIN_HEADER_SIZE

\* faulty variant, for comparison: the cursor put back to the start of the zero-length entry
AfterZeroLength_Rewind(off, p) == off

\* faulty variant, for comparison: a whole fixed header skipped
AfterZeroLength_SkipHeader(off, p) == off + MIN_HEADER_SIZE

\* where the loop reads next after the 'continue' of a zero-length entry, whose
\* four bytes were read from off up to p
AfterZeroLength(off, p) == p

\* the variables of the caller, of the other call and of gpio_converter.py, which
\* no step of the call touches
outside == <<alone, other, gpio_arg, gpio_result>>

\* the except clauses around the loop, entered when the resource raises: the
\* exception is raised again or a line is printed and parsed_entries returned
Except ==
    LET escaping == Escapes(fault.class, is_file_path)
    IN  /\ raised' = escaping
        /\ pc' = IF escaping = NoException THEN "done" ELSE "raised"
        /\ stderr' = IF escaping = NoException
                     THEN Append(stderr, HandlerDiag(fault.class))
                     ELSE stderr
        /\ UNCHANGED <<input, data, is_file_path, fault, verbose, pos, parsed_entries,
                       origins, entry_len, header_size_or_version, pid, tid, sec, nsec,
                       payload_len, outside>>

\* faulty variant, for comparison: the block left without closing f
WithExit_LeavesOpen(at) == FALSE

\* whether f is closed once the call is at 'at': leaving the with block, by a
\* break, a return or an exception, closes f
WithExit(at) == at \in {"done", "raised"}

\* faulty variant, for comparison: the cursor put to the first byte, as f.seek(0) would
SeekCurrent_Rewind(p) == 0

\* f.seek(0, os.SEEK_CUR): zero bytes from where the cursor is
SeekCurrent(p) == p

\* open(filepath, 'rb') for a path; entering the file-like object and
\* f.seek(0, os.SEEK_CUR) otherwise.  A path that cannot be opened gives no f;
\* an open file-like object raises at its seek, inside the with block.
Open ==
    /\ pc = "open"
    /\ IF OpenRaises
       THEN Except /\ UNCHANGED current_offset
       ELSE /\ pc' = "read_prefix"
            /\ pos' = IF is_file_path THEN 0 ELSE SeekCurrent(pos)
            /\ UNCHANGED <<input, data, is_file_path, fault, verbose, parsed_entries,
                           raised, origins, stderr, current_offset, entry_len,
                           header_size_or_version, pid, tid, sec, nsec, payload_len,
                           outside>>
    /\ stream' = IF OpenRaises /\ is_file_path THEN stream
                 ELSE [stream EXCEPT !.closed = WithExit(pc')]

\* faulty variant, for comparison: only a payload of no bytes at all taken for cut
IsShortPayload_OnlyEmpty(payload, n) == payload = <<>>

\* len(payload) < payload_len
IsShortPayload(payload, n) == Len(payload) < n

\* faulty variant, for comparison: the loop goes on with its next iteration
Stopped_GoesOn == "read_prefix"

\* where the call is after a break out of the loop or a return of parsed_entries
Stopped == "done"

\* faulty variant, for comparison: an empty read not taken for the end of the file
IsEndOfFile_Never(chunk) == FALSE

\* not header_prefix_data
IsEndOfFile(chunk) == chunk = <<>>

\* the top of the loop: current_offset = f.tell(), header_prefix_data = f.read(4),
\* and what hangs on entry_len
ReadPrefix ==
    /\ pc = "read_prefix"
    /\ \/ ReadRaises(pos) /\ Except /\ current_offset' = pos
       \/ /\ ~ReadRaises(pos)
           /\ LET header_prefix_data == Read(pos, 4)
                  after == Tell(pos, header_prefix_data)
                  elen == UnpackU16(SubSeq(header_prefix_data, 1, 2))
                  hsv == UnpackU16(SubSeq(header_prefix_data, 3, 4))
              IN  /\ current_offset' = pos
                  /\ IF IsEndOfFile(header_prefix_data)
                     THEN /\ pc' = Stopped
                          /\ pos' = after
                          /\ UNCHANGED <<stderr, entry_len, header_size_or_version>>
                     ELSE IF Len(header_prefix_data) < 4
                     THEN /\ pc' = Stopped
                          /\ pos' = after
                          /\ stderr' = Append(stderr, Diag("Error", "incomplete_prefix", pos))
                          /\ UNCHANGED <<entry_len, header_size_or_version>>
                     ELSE /\ entry_len' = elen
                          /\ header_size_or_version' = hsv
                          /\ IF IsZeroLength(elen)
                             THEN /\ pc' = "read_prefix"
                                  /\ pos' = AfterZeroLength(pos, after)
                                  /\ stderr' = IF verbose
                                               THEN Append(stderr, Diag("Verbose", "skip_zero_length", pos))
                                               ELSE stderr
                             ELSE IF IsTooSmall(elen)
                             THEN /\ pc' = Stopped
                                  /\ pos' = after
                                  /\ stderr' = Append(stderr, Diag("Error", "malformed_entry_len", pos))
                             ELSE /\ pc' = "read_header"
                                  /\ pos' = after
                                  /\ UNCHANGED stderr
           /\ UNCHANGED <<input, data, is_file_path, fault, verbose, parsed_entries, raised,
                          origins, pid, tid, sec, nsec, payload_len, outside>>
    /\ stream' = [stream EXCEPT !.closed = WithExit(pc')]

\* the rest of the fixed header: f.read(16), the unpacking, payload_len and the
\* two cases that need no payload read
ReadFixedHeader ==
    /\ pc = "read_header"
    /\ \/ ReadRaises(pos) /\ Except /\ UNCHANGED current_offset
       \/ /\ ~ReadRaises(pos)
           /\ LET fixed_header_data == Read(pos, MIN_HEADER_SIZE - 4)
                  after == Tell(pos, fixed_header_data)
                  p == UnpackI32(SubSeq(fixed_header_data, 1, 4))
                  t == UnpackI32(SubSeq(fixed_header_data, 5, 8))
                  s == UnpackU32(SubSeq(fixed_header_data, 9, 12))
                  ns == UnpackU32(SubSeq(fixed_header_data, 13, 16))
                  plen == PayloadLen(entry_len)
                  dump == IF verbose THEN <<Diag("Verbose", "parsed_header", current_offset)>>
                          ELSE <<>>
              IN  /\ pos' = after
                  /\ IF Len(fixed_header_data) < MIN_HEADER_SIZE - 4
                     THEN /\ pc' = Stopped
                          /\ stderr' = Append(stderr, Diag("Error", "incomplete_header",
                                                           current_offset + 4))
                          /\ UNCHANGED <<parsed_entries, origins, pid, tid, sec, nsec, payload_len>>
                     ELSE /\ pid' = p
                          /\ tid' = t
                          /\ sec' = s
                          /\ nsec' = ns
                          /\ payload_len' = plen
                          /\ IF plen < 0
                             THEN /\ pc' = IF verbose THEN "read_prefix" ELSE Stopped
                                  /\ stderr' = stderr \o dump \o
                                         <<Diag(IF verbose THEN "Warning" ELSE "Error",
                                                "negative_payload_len", current_offset)>>
                                  /\ UNCHANGED <<parsed_entries, origins>>
                             ELSE IF plen = 0
                             THEN /\ pc' = "read_prefix"
                                  /\ stderr' = stderr \o dump \o
                                         (IF verbose
                                          THEN <<Diag("Verbose", "no_payload", current_offset)>>
                                          ELSE <<>>)
                                  /\ parsed_entries' = AppendEntry(parsed_entries,
                                                                   HeaderOnlyRecord(p, t, s, ns))
                                  /\ origins' = Append(origins, Span(current_offset, after))
                             ELSE /\ pc' = "read_payload"
                                  /\ stderr' = stderr \o dump
                                  /\ UNCHANGED <<parsed_entries, origins>>
           /\ UNCHANGED <<input, data, is_file_path, fault, verbose, raised, current_offset,
                          entry_len, header_size_or_version, outside>>
    /\ stream' = [stream EXCEPT !.closed = WithExit(pc')]

\* the payload: f.read(payload_len) and the decoding of priority, tag and message
ReadPayload ==
    /\ pc = "read_payload"
    /\ \/ ReadRaises(pos) /\ Except /\ UNCHANGED current_offset
       \/ /\ ~ReadRaises(pos)
           /\ LET payload == Read(pos, payload_len)
                  after == Tell(pos, payload)
              IN  /\ pos' = after
                  /\ IF IsShortPayload(payload, payload_len)
                     THEN /\ pc' = Stopped
                          /\ stderr' = Append(stderr, Diag("Error", "incomplete_payload",
                                                           current_offset + MIN_HEADER_SIZE))
                          /\ UNCHANGED <<parsed_entries, origins>>
                     ELSE IF payload = <<>>
                     THEN \* payload[0] raises IndexError
                          /\ pc' = "read_prefix"
                          /\ stderr' = Append(stderr, Diag("Warning", "payload_too_short",
                                                           current_offset + MIN_HEADER_SIZE))
                          /\ UNCHANGED <<parsed_entries, origins>>
                     ELSE /\ pc' = "read_prefix"
                          /\ stderr' = IF TagEndIdx(payload) = -1
                                       THEN Append(stderr, Diag("Warning", "no_tag_terminator",
                                                                current_offset + MIN_HEADER_SIZE))
                                       ELSE stderr
                          /\ parsed_entries' = AppendEntry(parsed_entries,
                                                           PayloadRecord(pid, tid, sec, nsec, payload))
                          /\ origins' = Append(origins, Span(current_offset, after))
           /\ UNCHANGED <<input, data, is_file_path, fault, verbose, raised, current_offset,
                          entry_len, header_size_or_version, pid, tid, sec, nsec, payload_len,
                          outside>>
    /\ stream' = [stream EXCEPT !.closed = WithExit(pc')]

Next == Open \/ ReadPrefix \/ ReadFixedHeader \/ ReadPayload

Spec == Init /\ [][Next]_vars

----------------------------------------------------------------------------
(* More than one call.  The caller keeps what a first call returned (alone)  *)
(* and calls parse_pmsg_file again on a fresh stream: of the same bytes with *)
(* the other verbosity, of the same bytes but for the header_size_or_version *)
(* fields, or of the same bytes while a second thread of the process runs a  *)
(* call of its own.  With two threads one call runs and the other waits in   *)
(* 'other'; the interpreter may switch between them after any step.  The     *)
(* arguments and locals belong to a call, sys.stderr to the process.         *)

\* the arguments and locals of the running call, as kept while it waits
Waiting(name) ==
    [name |-> name, input |-> input, data |-> data, is_file_path |-> is_file_path,
     fault |-> fault, verbose |-> verbose, pos |-> pos, pc |-> pc,
     parsed_entries |-> parsed_entries, raised |-> raised, origins |-> origins,
     current_offset |-> current_offset, entry_len |-> entry_len,
     header_size_or_version |-> header_size_or_version, pid |-> pid, tid |-> tid,
     sec |-> sec, nsec |-> nsec, payload_len |-> payload_len, stream |-> stream]

\* a call that has not started, on a file-like object that raises nothing
NewCall(name, ds, bytes, v) ==
    [name |-> name, input |-> ds, data |-> bytes, is_file_path |-> FALSE,
     fault |-> NoFault, verbose |-> v, pos |-> 0, pc |-> "open",
     parsed_entries |-> <<>>, raised |-> NoException, origins |-> <<>>,
     current_offset |-> 0, entry_len |-> 0, header_size_or_version |-> 0,
     pid |-> 0, tid |-> 0, sec |-> U32Of(0), nsec |-> U32Of(0), payload_len |-> 0,
     stream |-> OpenAt(0)]

\* faulty variant, for comparison: one list for all calls, as a module-level list
\* would be
OwnEntries_Shared(c) == parsed_entries

\* parsed_entries = [] is a local: each call has its own list
OwnEntries(c) == c.parsed_entries

\* call c runs from here on
Resume(c) ==
    /\ input' = c.input
    /\ data' = c.data
    /\ is_file_path' = c.is_file_path
    /\ fault' = c.fault
    /\ verbose' = c.verbose
    /\ pos' = c.pos
    /\ pc' = c.pc
    /\ parsed_entries' = OwnEntries(c)
    /\ raised' = c.raised
    /\ origins' = c.origins
    /\ current_offset' = c.current_offset
    /\ entry_len' = c.entry_len
    /\ header_size_or_version' = c.header_size_or_version
    /\ pid' = c.pid
    /\ tid' = c.tid
    /\ sec' = c.sec
    /\ nsec' = c.nsec
    /\ payload_len' = c.payload_len
    /\ stream' = c.stream

\* the segments with every header_size_or_version field set to h
WithHeaderSize(ds, h) == [i \in DOMAIN ds |-> [ds[i] EXCEPT !.header_size_or_version = h]]

OtherHeaderSizes == HsvSamples \ {MIN_HEADER_SIZE}

\* what the second thread parses: a stream of its own (its call is verbose only
\* next to a call on at most one segment)
BystanderInput ==
    <<Entry(7, 8, Sec0, Nsec0, <<69>>, <<66>>, <<89>>, MIN_HEADER_SIZE, None),
      Pad(0, MIN_HEADER_SIZE),
      Packed(MIN_HEADER_SIZE, MIN_HEADER_SIZE, 9, 10, Sec0, U32Of(0), <<>>)>>

\* where in a segment a stream is cut: at its start, in the header prefix, at and
\* after its end, in the rest of the header, at its end and in the payload
CutOffsets == {0, 1, 3, 4, 5, 19, 20, 21, 22}

\* the lengths of the prefixes tried of the stream holding ds: all of them for one
\* segment, and for more the cuts at CutOffsets into each segment and at the end
CutsOf(ds) ==
    LET n == Len(StreamBytes(ds))
        starts == {Len(StreamBytes(SubSeq(ds, 1, i - 1))) : i \in DOMAIN ds}
    IN  IF Len(ds) <= 1 THEN 0..n
        ELSE ({s + j : s \in starts, j \in CutOffsets} \cup {n - 1, n}) \cap (0..n)

\* the name of the running call
Running == IF other = <<>> \/ other[1].name = "bystander" THEN "repeat" ELSE "bystander"

\* the first call has returned; the caller keeps its result and calls again
CallAgain ==
    /\ pc = "done"
    /\ alone = <<>>
    /\ \E kind \in {"verbosity", "header_size", "concurrent", "prefix"} :
           /\ alone' = <<[kind |-> kind, parsed_entries |-> parsed_entries, pos |-> pos,
                          data |-> data]>>
           /\ \/ /\ kind = "verbosity"
                 /\ Resume(NewCall("repeat", input, data, ~verbose))
                 /\ other' = <<>>
              \/ /\ kind = "header_size"
                 /\ \E h \in OtherHeaderSizes :
                        Resume(NewCall("repeat", WithHeaderSize(input, h),
                                       Take(StreamBytes(WithHeaderSize(input, h)), Len(data)),
                                       verbose))
                 /\ other' = <<>>
              \/ /\ kind = "concurrent"
                 /\ input \in PlainSeqs \/ Len(input) = 1
                 /\ Resume(NewCall("repeat", input, data, verbose))
                 /\ \E ds \in {input, BystanderInput} :
                        other' = <<NewCall("bystander", ds,
                                           IF ds = input THEN data ELSE StreamBytes(ds),
                                           verbose /\ Len(input) <= 1)>>
              \/ /\ kind = "prefix"
                 /\ data = StreamBytes(input) /\ ~verbose
                 /\ input \in PlainSeqs \/ Len(input) <= 2
                 /\ \E k \in CutsOf(input) :
                        Resume(NewCall("repeat", input, Take(data, k), verbose))
                 /\ other' = <<>>
    /\ UNCHANGED <<stderr, gpio_arg, gpio_result>>

\* the interpreter lets the waiting thread run
Switch ==
    /\ other # <<>>
    /\ other[1].pc \notin {"done", "raised"}
    /\ other' = <<Waiting(Running)>>
    /\ Resume(other[1])
    /\ UNCHANGED <<stderr, alone, gpio_arg, gpio_result>>

AgainInit == Init /\ Len(input) < MaxFrames /\ input \notin {<<r>> : r \in PrioFrames}

AgainNext == Next \/ CallAgain \/ Switch

AgainSpec == AgainInit /\ [][AgainNext]_vars

\* The loop runs without suspension: a step that can be taken is taken.  Liveness
\* is checked on the streams of fewer than MaxFrames segments.
LiveInit == Init /\ Len(input) < MaxFrames

LiveSpec == LiveInit /\ [][Next]_vars /\ WF_vars(Next)

----------------------------------------------------------------------------
(* gpio_converter.py: the two conversions between a pin number and the     *)
(* name of a pin, "<group>_<subgroup><pin>".  Each is a function of its    *)
(* argument alone; a call either returns a value or raises ValueError with *)
(* a message.                                                              *)

\* how far beyond both ends of 0..159 the pin numbers tried reach
MaxPinMargin == 40

Returned(value) == [raised |-> NoException, message |-> "", value |-> <<value>>]

Raised(cls, msg) == [raised |-> cls, message |-> msg, value |-> <<>>]

\* faulty variant, for comparison: 160 let through
InRange_OneMore(pin_number) == 0 <= pin_number /\ pin_number <= 160

\* 0 <= pin_number <= 159
InRange(pin_number) == 0 <= pin_number /\ pin_number <= 159

\* ['a', 'b', 'c', 'd'], indexed from 0 in the source
subgroup_char_map == <<97, 98, 99, 100>>

to_gpio_string(pin_number) ==
    IF ~InRange(pin_number)
    THEN Raised("ValueError", "Pin number out of range. Must be between 0 and 159.")
    ELSE LET group            == pin_number \div 32
             pin_in_group     == pin_number % 32
             subgroup_index   == pin_in_group \div 8
             subgroup_char    == subgroup_char_map[subgroup_index + 1]
             pin_in_subgroup  == pin_in_group % 8
         IN  Returned(DecimalString(group) \o <<95, subgroup_char>>
                      \o DecimalString(pin_in_subgroup))

\* re.match(r"^([0-4])_([a-d])([0-7])$", gpio_string): the three groups of the
\* match, <<>> if there is none.  '$' matches at the end of the string and also
\* just before a newline that is the last character of the string.
ReMatch(gpio_string) ==
    LET n    == Len(gpio_string)
        body == IF n > 0 /\ gpio_string[n] = 10 THEN Take(gpio_string, n - 1)
                ELSE gpio_string
    IN  IF /\ Len(body) = 4
           /\ body[1] \in 48..52
           /\ body[2] = 95
           /\ body[3] \in 97..100
           /\ body[4] \in 48..55
        THEN <<body[1], body[3], body[4]>>
        ELSE <<>>

\* int() of one decimal digit
IntOfDigit(ch) == ch - 48

\* faulty variant, for comparison: the subgroups numbered from 1
SubgroupIndexOf_FromOne(ch) == ch - 96

\* {'a': 0, 'b': 1, 'c': 2, 'd': 3}
SubgroupIndexOf(ch) == ch - 97

to_pin_number(gpio_string) ==
    LET match == ReMatch(gpio_string)
    IN  IF match = <<>>
        THEN Raised("ValueError",
                    "Invalid GPIO string format. Expected format: 'group_subgroupPin', e.g., '0_a5'.")
        ELSE LET group           == IntOfDigit(match[1])
                 pin_in_subgroup == IntOfDigit(match[3])
                 subgroup_index  == SubgroupIndexOf(match[2])
                 pin_number      == group * 32 + subgroup_index * 8 + pin_in_subgroup
             IN  Returned(pin_number)

\* the pin numbers tried: the range, a margin on both sides and the ends of the
\* 32-bit integers
PinNumbers == ((0 - MaxPinMargin) .. (159 + MaxPinMargin)) \cup {-2147483647, 2147483647}

\* the strings of the form group, '_', subgroup, pin
WellFormedNames ==
    {<<g, 95, c, p>> : g \in 48..52, c \in 97..100, p \in 48..55}

\* "0_a0", "0_a5", "2_b3", "4_d7"
BaseNames == {<<48, 95, 97, 48>>, <<48, 95, 97, 53>>, <<50, 95, 98, 51>>, <<52, 95, 100, 55>>}

\* LF, CR, space, '-', '0', '4', '5', '8', '9', 'A', '_', 'a', 'd', 'e'
EditChars == {10, 13, 32, 45, 48, 52, 53, 56, 57, 65, 95, 97, 100, 101}

\* a name with one character inserted, replaced or removed
EditedNames ==
    {Take(s, i) \o <<ch>> \o Drop(s, i) : s \in BaseNames, i \in 0..4, ch \in EditChars}
    \cup {Take(s, i - 1) \o <<ch>> \o Drop(s, i) : s \in BaseNames, i \in 1..4, ch \in EditChars}
    \cup {Take(s, i - 1) \o Drop(s, i) : s \in BaseNames, i \in 1..4}

\* "", "0_a0_extra", "0_a00", "-1_a0", "0_a5" LF LF, LF "0_a5"
OtherNames ==
    {<<>>, <<48, 95, 97, 48, 95, 101, 120, 116, 114, 97>>, <<48, 95, 97, 48, 48>>,
     <<45, 49, 95, 97, 48>>, <<48, 95, 97, 53, 10, 10>>, <<10, 48, 95, 97, 53>>}

GpioStrings == WellFormedNames \cup EditedNames \cup OtherNames

\* one call of one of the two functions; the decoder is not running
GpioInit ==
    /\ input = <<>>
    /\ data = <<>>
    /\ is_file_path = FALSE
    /\ fault = NoFault
    /\ verbose = FALSE
    /\ Start
    /\ stderr = <<>>
    /\ alone = <<>>
    /\ other = <<>>
    /\ gpio_arg \in {[function |-> "to_gpio_string", pin_number |-> n] : n \in PinNumbers}
                    \cup {[function |-> "to_pin_number", gpio_string |-> s] : s \in GpioStrings}
    /\ gpio_result = <<>>

decoder == <<input, data, is_file_path, fault, verbose, pos, pc, parsed_entries, raised,
             origins, stderr, current_offset, entry_len, header_size_or_version, pid, tid,
             sec, nsec, payload_len, stream, alone, other>>

ToGpioString ==
    /\ gpio_arg.function = "to_gpio_string"
    /\ gpio_result = <<>>
    /\ gpio_result' = <<to_gpio_string(gpio_arg.pin_number)>>
    /\ UNCHANGED <<gpio_arg, decoder>>

ToPinNumber ==
    /\ gpio_arg.function = "to_pin_number"
    /\ gpio_result = <<>>
    /\ gpio_result' = <<to_pin_number(gpio_arg.gpio_string)>>
    /\ UNCHANGED <<gpio_arg, decoder>>

\* to_pin_number(to_gpio_string(pin_number)): the caller passes the name returned
\* on to the other function
ThenToPinNumber ==
    /\ gpio_arg.function = "to_gpio_string"
    /\ Len(gpio_result) = 1
    /\ gpio_result[1].raised = NoException
    /\ gpio_result' = Append(gpio_result, to_pin_number(gpio_result[1].value[1]))
    /\ UNCHANGED <<gpio_arg, decoder>>

\* to_gpio_string(to_pin_number(gpio_string))
ThenToGpioString ==
    /\ gpio_arg.function = "to_pin_number"
    /\ Len(gpio_result) = 1
    /\ gpio_result[1].raised = NoException
    /\ gpio_result' = Append(gpio_result, to_gpio_string(gpio_result[1].value[1]))
    /\ UNCHANGED <<gpio_arg, decoder>>

GpioNext == ToGpioString \/ ToPinNumber \/ ThenToPinNumber \/ ThenToGpioString

GpioSpec == GpioInit /\ [][GpioNext]_vars

----------------------------------------------------------------------------
(* Properties.  They are stated over what was written into the stream      *)
(* (input) and what the call returned (parsed_entries at "done").          *)

Done == pc = "done"

\* the stream holds all the bytes written, none cut off
Whole == data = StreamBytes(input)

Range(s) == {s[i] : i \in DOMAIN s}

IsZeroPad(d) == d.kind = "pad" /\ d.entry_len = 0

\* the payload bytes written for a segment
SegPayload(d) ==
    IF d.kind = "entry" THEN EntryPayload(d.level_char, d.tag, d.message) ELSE d.payload

\* a frame whose entry_len is the length of its header and payload
IsWholeFrame(d) ==
    \/ d.kind = "entry" /\ d.entry_len = None
    \/ d.kind = "packed" /\ d.entry_len = MIN_HEADER_SIZE + Len(d.payload)

\* a stream of whole frames and zero-length pads
WellFramed(ds) == \A i \in DOMAIN ds : IsZeroPad(ds[i]) \/ IsWholeFrame(ds[i])

Frames(ds) == SelectSeq(ds, IsWholeFrame)

\* the offset at which segment i starts
StartOf(ds, i) == Len(StreamBytes(SubSeq(ds, 1, i - 1)))

\* how many whole frames there are among the first i segments
FramesUpTo(ds, i) == Len(Frames(SubSeq(ds, 1, i)))

\* a frame of the encoder: a known level, a tag without NUL
IsValidEntry(d) ==
    /\ d.kind = "entry"
    /\ d.entry_len = None
    /\ d.level_char \in LevelChars
    /\ 0 \notin Range(d.tag)

\* text without its trailing NULs
RECURSIVE StripNuls(_)
StripNuls(text) ==
    IF text # <<>> /\ text[Len(text)] = 0
    THEN StripNuls(SubSeq(text, 1, Len(text) - 1))
    ELSE text

\* record is what frame d of the encoder says
IsDecodingOf(record, d) ==
    /\ record.pid = d.pid
    /\ record.tid = d.tid
    /\ record.timestamp.sec = d.sec
    /\ record.level = d.level_char
    /\ record.tag = d.tag
    /\ record.message = StripNuls(d.message)

\* C1: a stream that is the concatenation of N valid encoded frames (N = 0 too)
\* yields exactly N records, the i-th one the decoding of the i-th frame.
C1_ConcatenatedFrames ==
    (Done /\ Whole /\ \A i \in DOMAIN input : IsValidEntry(input[i]))
    => /\ Len(parsed_entries) = Len(input)
       /\ \A i \in DOMAIN input : IsDecodingOf(parsed_entries[i], input[i])

\* C1 witness: three valid frames, not all the same, have been decoded
C1_Witness ==
    /\ Done /\ Whole
    /\ Len(input) = 3
    /\ \A i \in DOMAIN input : IsValidEntry(input[i])
    /\ input[1] # input[2]
    /\ Len(parsed_entries) = 3

\* the precondition of the round trip: a valid frame whose message does not end
\* in a NUL
IsRoundTripEntry(d) ==
    IsValidEntry(d) /\ (d.message = <<>> \/ d.message[Len(d.message)] # 0)

\* C2: decoding the encoding of one valid frame (priority 2..7, tag without NUL,
\* message not ending in NUL, either possibly empty) gives exactly one record with
\* the same pid, tid, the priority's symbol, the same tag and the same message.
C2_RoundTrip ==
    (Done /\ Whole /\ Len(input) = 1 /\ IsRoundTripEntry(input[1]))
    => /\ Len(parsed_entries) = 1
       /\ parsed_entries[1].pid = input[1].pid
       /\ parsed_entries[1].tid = input[1].tid
       /\ parsed_entries[1].level = input[1].level_char
       /\ parsed_entries[1].tag = input[1].tag
       /\ parsed_entries[1].message = input[1].message

\* C2 witness: a frame with a negative pid and one with a two-byte character in
\* tag and message have made the round trip
C2_Witness ==
    /\ Done /\ Whole /\ Len(input) = 1 /\ IsRoundTripEntry(input[1])
    /\ \/ input[1].pid < 0
       \/ input[1].tag = <<233>> /\ input[1].message = <<233, 77>>
    /\ Len(parsed_entries) = 1

\* C3 as stated: every record's timestamp is sec seconds plus floor(nsec / 1000)
\* microseconds, the remainder of nsec cut off.
C3_TimestampTruncates ==
    (Done /\ Whole /\ WellFramed(input))
    => /\ Len(parsed_entries) = Len(Frames(input))
       /\ \A k \in DOMAIN parsed_entries :
              parsed_entries[k].timestamp =
                  [sec |-> Frames(input)[k].sec,
                   micros |-> U32Div1000(Frames(input)[k].nsec)]

\* the record the example scenario expects
ExampleRecord ==
    LogRecord([sec |-> U32Of(1672569055), micros |-> 123000], 100, 200, <<73>>,
              <<84, 101, 115, 116, 84, 97, 103>>,
              <<72, 101, 108, 108, 111, 32, 87, 111, 114, 108, 100>>)

\* C4 as stated: the header with entry_len = 31 followed by the 21 payload bytes
\* 0x04 "TestTag" NUL "Hello World" NUL decodes to exactly the one record with
\* pid 100, tid 200, level "I", tag "TestTag", message "Hello World".
C4_ExampleEntryLen31 ==
    (Done /\ input = <<Example31>>) => parsed_entries = <<ExampleRecord>>

\* C4 amended: with entry_len = 41 (the 20 header bytes and the 21 payload bytes)
\* the example decodes to exactly that one record.
C4_ExampleEntryLen41 ==
    (Done /\ input = <<Example41>>) => parsed_entries = <<ExampleRecord>>

\* C4 witness: the example with entry_len = 41 has been decoded
C4_Witness == Done /\ input = <<Example41>> /\ Len(parsed_entries) = 1

\* C5: a zero-length frame (the four bytes of a zero entry_len and any
\* header_size_or_version) appends no record and does not stop decoding: in a
\* stream of valid frames and zero-length frames every valid frame is decoded into
\* its record, those after a zero-length frame too.
C5_ZeroLengthSkipped ==
    (Done /\ Whole /\ \A i \in DOMAIN input : IsZeroPad(input[i]) \/ IsValidEntry(input[i]))
    => /\ Len(parsed_entries) = Len(Frames(input))
       /\ \A k \in DOMAIN parsed_entries : IsDecodingOf(parsed_entries[k], Frames(input)[k])

\* C5 witness: a zero-length frame with header_size_or_version 65535 came first and
\* the valid frame after it was decoded
C5_Witness ==
    /\ Done /\ Whole
    /\ Len(input) >= 2
    /\ input[1] = Pad(0, 65535)
    /\ IsValidEntry(input[2])
    /\ Len(parsed_entries) >= 1
    /\ IsDecodingOf(parsed_entries[1], input[2])

\* segment i has an entry_len between 1 and 19
IsShort(d) == d.kind \in {"packed", "pad"} /\ 1 <= d.entry_len /\ d.entry_len < MIN_HEADER_SIZE

\* the records of the whole frames among the first n segments, in order
DecodedUpTo(n) ==
    /\ Len(parsed_entries) = FramesUpTo(input, n)
    /\ \A k \in DOMAIN parsed_entries :
           LET d == Frames(SubSeq(input, 1, n))[k]
           IN  /\ parsed_entries[k].pid = d.pid
               /\ parsed_entries[k].tid = d.tid
               /\ parsed_entries[k].timestamp.sec = d.sec

\* C6: a frame whose entry_len is between 1 and 19 halts the stream, verbose or not:
\* the call returns exactly the records of the frames before it, the last line
\* printed is the 'Malformed entry' error at the frame's offset, nothing is read
\* past the frame's first four bytes and no frame after it gives a record.
C6_ShortEntryLenHalts ==
    (Done /\ Whole)
    => \A i \in DOMAIN input :
           (IsShort(input[i]) /\ WellFramed(SubSeq(input, 1, i - 1)))
           => /\ DecodedUpTo(i - 1)
              /\ stderr # <<>>
              /\ stderr[Len(stderr)] = Diag("Error", "malformed_entry_len", StartOf(input, i))
              /\ Cardinality({j \in DOMAIN stderr : stderr[j].sev = "Error"}) = 1
              /\ pos = StartOf(input, i) + 4

\* C6 witness: a frame with entry_len 19 stood between two frames, verbose was on,
\* and only the first frame's record was returned
C6_Witness ==
    /\ Done /\ Whole /\ verbose
    /\ Len(input) = 3
    /\ IsWholeFrame(input[1])
    /\ IsShort(input[2]) /\ input[2].entry_len = 19
    /\ IsWholeFrame(input[3])
    /\ Len(parsed_entries) = 1

\* a whole frame without payload
IsHeaderOnly(d) == IsWholeFrame(d) /\ SegPayload(d) = <<>>

\* C7: a frame with entry_len = 20 whose header bytes are all there yields exactly
\* one record with the header's pid and tid, level "N/A", tag "N/A" and an empty
\* message; no payload byte is consumed, the next read is at the next frame, and the
\* frames after it are decoded.
C7_HeaderOnlyRecord ==
    \A i \in DOMAIN input :
        (IsHeaderOnly(input[i]) /\ WellFramed(input) /\ Whole)
        => LET k == FramesUpTo(input, i)
           IN  /\ Len(parsed_entries) >= k
                  => /\ parsed_entries[k].pid = input[i].pid
                     /\ parsed_entries[k].tid = input[i].tid
                     /\ parsed_entries[k].timestamp.sec = input[i].sec
                     /\ parsed_entries[k].level = NA
                     /\ parsed_entries[k].tag = NA
                     /\ parsed_entries[k].message = <<>>
               /\ (pc = "read_prefix" /\ Len(parsed_entries) = k
                      /\ current_offset = StartOf(input, i))
                  => pos = StartOf(input, i) + MIN_HEADER_SIZE
               /\ Done => Len(parsed_entries) = Len(Frames(input))

\* C7 witness: a frame without payload came first, its record is there and the
\* frame after it was decoded too
C7_Witness ==
    /\ Done /\ Whole /\ WellFramed(input)
    /\ Len(input) >= 2
    /\ IsHeaderOnly(input[1]) /\ input[1].kind = "packed"
    /\ IsWholeFrame(input[2])
    /\ Len(parsed_entries) = 2
    /\ parsed_entries[1].tag = NA

\* a payload of at least one byte with no zero byte after the priority byte
NoTerminator(payload) ==
    payload # <<>> /\ \A j \in 2..Len(payload) : payload[j] # 0

\* the lines of a severity printed for an offset
DiagsAt(sev, offset) ==
    {j \in DOMAIN stderr : stderr[j].sev = sev /\ stderr[j].offset = offset}

\* C8: a payload of at least one byte without a zero byte at index 1 or later (one
\* that is the priority byte alone too) yields one record with tag "ErrorTag" and
\* as message the lossy decoding of all bytes after the priority byte; exactly one
\* warning is printed for it, and decoding goes on with the next frame.
C8_NoTagTerminator ==
    (Done /\ Whole /\ WellFramed(input))
    => /\ \A i \in DOMAIN input :
              NoTerminator(SegPayload(input[i]))
              => LET k == FramesUpTo(input, i)
                     payload == SegPayload(input[i])
                 IN  /\ Len(parsed_entries) = Len(Frames(input))
                     /\ parsed_entries[k].tag = ErrorTag
                     /\ parsed_entries[k].message = Utf8DecodeReplace(Tail(payload))
                     /\ Cardinality(DiagsAt("Warning",
                                            StartOf(input, i) + MIN_HEADER_SIZE)) = 1
       /\ Cardinality({j \in DOMAIN stderr : stderr[j].sev = "Warning"})
              = Cardinality({i \in DOMAIN input : NoTerminator(SegPayload(input[i]))})

\* C8 witness: a payload without terminator stood before another frame; both have
\* records and one warning was printed
C8_Witness ==
    /\ Done /\ Whole /\ WellFramed(input)
    /\ Len(input) = 2
    /\ NoTerminator(SegPayload(input[1])) /\ Len(SegPayload(input[1])) = 3
    /\ IsWholeFrame(input[2])
    /\ Len(parsed_entries) = 2
    /\ parsed_entries[1].tag = ErrorTag
    /\ Len(stderr) = 1

\* C9: the message is the decoding of the payload bytes from the message start up
\* to and including the last byte that is not zero: every trailing zero byte is
\* dropped, zero bytes before that are kept, and a message part of zero bytes only
\* (or of no bytes) is the empty message.
C9_TrailingZerosStripped ==
    (Done /\ Whole /\ WellFramed(input))
    => \A i \in DOMAIN input :
           SegPayload(input[i]) # <<>>
           => LET payload == SegPayload(input[i])
                  start == MessageStartIdx(payload)
                  nonzero == {j \in (start + 1)..Len(payload) : payload[j] # 0}
                  last == IF nonzero = {} THEN start
                          ELSE CHOOSE j \in nonzero : \A m \in nonzero : m <= j
              IN  parsed_entries[FramesUpTo(input, i)].message
                      = Utf8DecodeReplace(SubSeq(payload, start + 1, last))

\* C9 witness: "Hi" NUL NUL NUL was decoded to "Hi", and a message with a NUL
\* inside kept it
C9_Witness ==
    /\ Done /\ Whole /\ Len(input) = 1 /\ WellFramed(input)
    /\ \/ /\ SegPayload(input[1]) = <<4, 84, 0, 72, 105, 0, 0, 0>>
          /\ parsed_entries[1].message = <<72, 105>>
       \/ /\ SegPayload(input[1]) = <<5, 84, 0, 72, 0, 105, 0>>
          /\ parsed_entries[1].message = <<72, 0, 105>>

\* C10: on every stream, well-formed, malformed or cut, the loop comes to an end:
\* the call reaches "done".
C10_Terminates == <>Done

\* C10 witness: the call ended on a stream that was cut, with an error printed
C10_Witness == Done /\ ~Whole /\ stderr # <<>>

\* the offset at which the frame after the one at off starts: a zero entry_len
\* stands for its four bytes
NextBoundary(d, off) ==
    LET elen == UnpackU16(SubSeq(d, off + 1, off + 2))
    IN  IF elen = 0 THEN off + 4 ELSE off + elen

\* the frame boundaries of a stream, from off on: the walk over the entry_len
\* fields ends where fewer than four bytes are left or entry_len is 1..19
RECURSIVE BoundariesFrom(_, _)
BoundariesFrom(d, off) ==
    IF off + 4 > Len(d) THEN {off}
    ELSE LET elen == UnpackU16(SubSeq(d, off + 1, off + 2))
         IN  IF 1 <= elen /\ elen < MIN_HEADER_SIZE THEN {off}
             ELSE {off} \cup BoundariesFrom(d, NextBoundary(d, off))

FrameBoundaries(d) == BoundariesFrom(d, 0)

\* the record the bytes of one frame say, b being its header and payload
RecordOfBytes(b) ==
    LET p == UnpackI32(SubSeq(b, 5, 8))
        t == UnpackI32(SubSeq(b, 9, 12))
        s == UnpackU32(SubSeq(b, 13, 16))
        ns == UnpackU32(SubSeq(b, 17, 20))
    IN  IF Len(b) = MIN_HEADER_SIZE THEN HeaderOnlyRecord(p, t, s, ns)
        ELSE PayloadRecord(p, t, s, ns, Drop(b, MIN_HEADER_SIZE))

\* C11: in every reachable state each record was made from exactly one frame: its
\* bytes are one span that starts at a frame boundary of the stream and is as long
\* as that frame's entry_len says, the record is what those bytes alone decode to,
\* and the spans of the records follow each other in the order of the records
\* without overlap (so no two records share a frame or a byte).
C11_OneFramePerRecord ==
    /\ Len(origins) = Len(parsed_entries)
    /\ \A k \in DOMAIN parsed_entries :
           LET o == origins[k]
           IN  /\ o.start \in FrameBoundaries(data)
               /\ o.stop <= Len(data)
               /\ o.stop = o.start + UnpackU16(SubSeq(data, o.start + 1, o.start + 2))
               /\ parsed_entries[k] = RecordOfBytes(SubSeq(data, o.start + 1, o.stop))
    /\ \A k \in DOMAIN parsed_entries :
           k > 1 => origins[k - 1].stop <= origins[k].start

\* C11 witness: two frames with a zero-length frame between them have given two
\* records, the second one from the bytes four past the end of the first
C11_Witness ==
    /\ Done /\ Whole
    /\ Len(input) = 3 /\ IsZeroPad(input[2])
    /\ Len(parsed_entries) = 2
    /\ origins[1].start = 0
    /\ origins[2].start = origins[1].stop + 4

\* the largest element of a non-empty set of numbers
Max(S) == CHOOSE x \in S : \A y \in S : y <= x

\* entry_len of the frame at boundary off
EntryLenAt(d, off) == UnpackU16(SubSeq(d, off + 1, off + 2))

\* where and how a stream is truncated (no element if it is not): the stream ends
\* one to three bytes after its last frame boundary, or inside the frame that
\* starts at the last boundary before its end: in the rest of the fixed header if
\* fewer than 20 bytes of the frame are there, in the payload otherwise
Truncations(d) ==
    LET last == Max(FrameBoundaries(d))
        start == Max({b \in FrameBoundaries(d) : b <= Len(d)})
    IN  IF last = Len(d) THEN {}
        ELSE IF last < Len(d)
        THEN IF Len(d) - last < 4
             THEN {[kind |-> "incomplete_prefix", start |-> last, offset |-> last]}
             ELSE {}
        ELSE IF Len(d) - start < MIN_HEADER_SIZE
        THEN {[kind |-> "incomplete_header", start |-> start, offset |-> start + 4]}
        ELSE {[kind |-> "incomplete_payload", start |-> start,
               offset |-> start + MIN_HEADER_SIZE]}

\* the lines of severity Error printed
ErrorLines == {j \in DOMAIN stderr : stderr[j].sev = "Error"}

\* C16: each truncation is stream-fatal: a header prefix of 1 to 3 bytes, fewer
\* than 16 bytes for the rest of the fixed header, or fewer payload bytes than
\* payload_len, each print exactly one error (the last line, with the offset of the
\* missing part), add no record for the truncated frame and stop the decoding: the
\* call returns exactly the records of the frames before that frame.
C16_TruncationHalts ==
    Done
    => \A t \in Truncations(data) :
           /\ ErrorLines = {Len(stderr)}
           /\ stderr[Len(stderr)] = Diag("Error", t.kind, t.offset)
           /\ Len(parsed_entries)
                  = Cardinality({b \in FrameBoundaries(data) :
                                     b < t.start /\ EntryLenAt(data, b) >= MIN_HEADER_SIZE})
           /\ \A k \in DOMAIN origins : origins[k].stop <= t.start
           /\ pos = Len(data)

\* C16 witness: the stream was cut inside the payload of its second frame; the
\* call returned the first frame's record and printed the one error
C16_Witness ==
    /\ Done /\ ~Whole
    /\ \E t \in Truncations(data) : t.kind = "incomplete_payload" /\ t.start > 0
    /\ Len(parsed_entries) = 1
    /\ ErrorLines = {Len(stderr)}

\* the level the priority byte prio stands for: the letter of 2..7, the decimal
\* digits of every other value
LevelOfPriority(prio) ==
    IF 2 <= prio /\ prio <= 7 THEN <<<<86>>, <<68>>, <<73>>, <<87>>, <<69>>, <<70>>>>[prio - 1]
    ELSE IF prio < 10 THEN <<48 + prio>>
    ELSE IF prio < 100 THEN <<48 + (prio \div 10), 48 + (prio % 10)>>
    ELSE <<48 + (prio \div 100), 48 + ((prio \div 10) % 10), 48 + (prio % 10)>>

\* C17: the level of a record with payload is determined by payload byte 0 alone:
\* 2..7 give V, D, I, W, E, F and every other value 0..1, 8..255 its decimal string;
\* a value outside the table is no error: the record is appended and no error or
\* warning is printed on its account.
C17_LevelFromPriority ==
    (Done /\ Whole /\ WellFramed(input))
    => /\ Len(parsed_entries) = Len(Frames(input))
       /\ \A i \in DOMAIN input :
              SegPayload(input[i]) # <<>>
              => LET payload == SegPayload(input[i])
                 IN  /\ parsed_entries[FramesUpTo(input, i)].level
                            = LevelOfPriority(payload[1])
                     /\ ~NoTerminator(payload)
                        => /\ DiagsAt("Error", StartOf(input, i)) = {}
                           /\ DiagsAt("Warning", StartOf(input, i)) = {}
                           /\ DiagsAt("Error", StartOf(input, i) + MIN_HEADER_SIZE) = {}
                           /\ DiagsAt("Warning", StartOf(input, i) + MIN_HEADER_SIZE) = {}
       /\ ErrorLines = {}

\* C17 witness: a frame with priority byte 255 gave a record with level "255" and
\* nothing was printed
C17_Witness ==
    /\ Done /\ Whole /\ Len(input) = 1 /\ input[1] \in PrioFrames
    /\ input[1].payload[1] = 255
    /\ Len(parsed_entries) = 1
    /\ parsed_entries[1].level = <<50, 53, 53>>
    /\ stderr = <<>>

\* the stream ends exactly at a frame boundary
EndsAtBoundary(d) == Max(FrameBoundaries(d)) = Len(d)

\* C18: the end of the stream at a frame boundary is a clean stop: the call returns
\* the records parsed so far, one for each frame of the stream (none for an empty
\* stream), having read all bytes, and prints no error and no warning for the end
\* of the stream (the only warnings are those of payloads without tag terminator).
C18_CleanEndOfStream ==
    (Done /\ EndsAtBoundary(data))
    => /\ ErrorLines = {}
       /\ \A j \in DOMAIN stderr :
              stderr[j].sev = "Warning"
              => stderr[j].kind = "no_tag_terminator" /\ stderr[j].offset < Len(data)
       /\ Len(parsed_entries)
              = Cardinality({b \in FrameBoundaries(data) :
                                 b < Len(data) /\ EntryLenAt(data, b) >= MIN_HEADER_SIZE})
       /\ pos = Len(data)
       /\ data = <<>> => (parsed_entries = <<>> /\ stderr = <<>>)

\* C18 witness: a stream that was cut exactly after its first frame gave that
\* frame's record and nothing was printed
C18_Witness ==
    /\ Done /\ ~Whole /\ ~verbose
    /\ data # <<>> /\ EndsAtBoundary(data)
    /\ Len(parsed_entries) = 1
    /\ stderr = <<>>

----------------------------------------------------------------------------
(* Calls on resources that raise *)

\* the cursor positions of the reads of a stream of whole frames and pads: for a
\* pad its start, for a frame its start, the rest of its header and its payload if
\* it has one, and the end of the stream
ReadOffsets(ds) ==
    {Len(StreamBytes(ds))}
    \cup {StartOf(ds, i) : i \in DOMAIN ds}
    \cup {StartOf(ds, i) + 4 : i \in {j \in DOMAIN ds : IsWholeFrame(ds[j])}}
    \cup {StartOf(ds, i) + MIN_HEADER_SIZE :
              i \in {j \in DOMAIN ds : IsWholeFrame(ds[j]) /\ SegPayload(ds[j]) # <<>>}}

\* what the resource may raise: nothing, any class at open, any class at a read
FaultsOf(ds) ==
    {NoFault}
    \cup {[when |-> "open", offset |-> 0, class |-> c] : c \in FaultClasses}
    \cup {[when |-> "read", offset |-> off, class |-> c] :
              off \in ReadOffsets(ds), c \in FaultClasses}

\* one call, on a path or on a file-like object, of a resource that holds fewer
\* than MaxFrames plain segments
FaultInit ==
    /\ input \in SeqsUpTo(PlainSegments, MaxFrames - 1)
    /\ data = StreamBytes(input)
    /\ is_file_path \in BOOLEAN
    /\ fault \in FaultsOf(input)
    /\ verbose \in BOOLEAN
    /\ Start
    /\ stderr = <<>>
    /\ alone = <<>>
    /\ other = <<>>
    /\ gpio_arg = NoGpioCall
    /\ gpio_result = <<>>

FaultSpec == FaultInit /\ [][Next]_vars

----------------------------------------------------------------------------
(* Calls on a file-like object the caller has read from before *)

\* what the caller has read from the object before the call: nothing, one byte, or
\* five bytes that would frame differently if they were decoded
Preambles == {<<>>, <<255>>, <<255, 74, 85, 78, 75>>}

\* the faults of a resource whose segments start k bytes into it
FaultsFrom(ds, k) ==
    {IF f.when = "read" THEN [f EXCEPT !.offset = @ + k] ELSE f : f \in FaultsOf(ds)}

\* one call on a file-like object handed over after its preamble; the object may
\* raise when its segments are plain and all there
HandoverInit ==
    /\ input \in InputSeqs
    /\ Len(input) < MaxFrames
    /\ is_file_path = FALSE
    /\ verbose \in BOOLEAN
    /\ \E pre \in Preambles :
           /\ data \in {pre \o d : d \in StreamsOf(input)}
           /\ pos = Len(pre)
           /\ stream = OpenAt(Len(pre))
           /\ fault \in IF input \in PlainSeqs /\ Len(data) = Len(pre) + Len(StreamBytes(input))
                         THEN FaultsFrom(input, Len(pre))
                         ELSE {NoFault}
    /\ Locals
    /\ stderr = <<>>
    /\ alone = <<>>
    /\ other = <<>>
    /\ gpio_arg = NoGpioCall
    /\ gpio_result = <<>>

HandoverSpec == HandoverInit /\ [][Next]_vars

\* the call is over: it returned or an exception left it
Ended == pc \in {"done", "raised"}

\* how many records the frames that end at or before offset off give
RecordsBefore(ds, off) ==
    Cardinality({i \in DOMAIN ds : IsWholeFrame(ds[i]) /\ StartOf(ds, i + 1) <= off})

\* C12 as stated: on a caller-supplied stream a fault of the classes not-found,
\* permission or I/O raised by a read is caught inside the call, reported with a
\* diagnostic, and the call returns the records parsed before the fault.
C12_StreamFaultAbsorbed ==
    (Ended /\ ~is_file_path /\ fault.when = "read" /\ IsIOError(fault.class))
    => /\ pc = "done"
       /\ raised = NoException
       /\ stderr # <<>> /\ stderr[Len(stderr)].sev = "Error"
       /\ Len(parsed_entries) = RecordsBefore(input, fault.offset)

C14_NothingElseRaises ==
    (Ended /\ ~(is_file_path /\ IsIOError(fault.class)))
    => /\ pc = "done"
       /\ raised = NoException

----------------------------------------------------------------------------
(* Two calls *)

\* the second call of the given kind is the running one
Repeating(kind) == alone # <<>> /\ alone[1].kind = kind /\ Running = "repeat"

\* C15: verbosity does not change the output: the call with the other value of
\* verbose on the same bytes returns the same records and leaves the cursor at the
\* same place (it has consumed the same bytes).
C15_VerbosityNeutral ==
    (Repeating("verbosity") /\ Ended)
    => /\ pc = "done"
       /\ data = alone[1].data
       /\ parsed_entries = alone[1].parsed_entries
       /\ pos = alone[1].pos

\* C15 witness: a verbose call after a quiet one on a frame followed by one with
\* a short entry_len: both stopped there with the first frame's record, and the
\* verbose one printed its dump
C15_Witness ==
    /\ Repeating("verbosity") /\ Done /\ verbose
    /\ Len(input) = 2 /\ IsShort(input[2])
    /\ Len(parsed_entries) = 1
    /\ \E j \in DOMAIN stderr : stderr[j].sev = "Verbose"
    /\ Cardinality({j \in DOMAIN stderr : stderr[j].kind = "malformed_entry_len"}) = 2

\* two streams of the same length that differ at most in the
\* header_size_or_version bytes (offsets 2 and 3) of their frames
DiffersOnlyInHeaderSize(d1, d2) ==
    /\ Len(d1) = Len(d2)
    /\ \A j \in DOMAIN d1 :
           d1[j] # d2[j] => \E b \in FrameBoundaries(d1) : j = b + 3 \/ j = b + 4

\* C19: header_size_or_version never influences decoding: a call on a stream that
\* differs from the first one only in the header_size_or_version bytes of its
\* frames returns the same records and consumes the same bytes, and whatever the
\* field holds the payload of a frame is read from 20 bytes after the frame start.
C19_HeaderSizeIgnored ==
    /\ (Repeating("header_size") /\ Ended /\ DiffersOnlyInHeaderSize(alone[1].data, data))
       => /\ pc = "done"
          /\ parsed_entries = alone[1].parsed_entries
          /\ pos = alone[1].pos
    /\ pc = "read_payload"
       => /\ current_offset \in FrameBoundaries(data)
          /\ pos = current_offset + MIN_HEADER_SIZE

\* C19 witness: two frames with payload decoded again with header_size_or_version
\* 65535 in place of 20: the streams differ, the records do not
C19_Witness ==
    /\ Repeating("header_size") /\ Done
    /\ data # alone[1].data
    /\ DiffersOnlyInHeaderSize(alone[1].data, data)
    /\ header_size_or_version = 65535
    /\ Len(parsed_entries) = 2
    /\ parsed_entries = alone[1].parsed_entries
    /\ parsed_entries[2].message # <<>>

\* what the call of the given name has come to, running or waiting
StateOf(name) ==
    IF Running = name
    THEN [pc |-> pc, data |-> data, parsed_entries |-> parsed_entries]
    ELSE [pc |-> other[1].pc, data |-> other[1].data,
          parsed_entries |-> other[1].parsed_entries]

\* C20: calls are independent: of two calls that run concurrently on separate
\* sources, under every interleaving of their steps, each returns the records it
\* returns when run alone, and the first call has left nothing behind that changes
\* what a later call on the same bytes returns.
C20_CallsIndependent ==
    (alone # <<>> /\ alone[1].kind = "concurrent")
    => \A name \in {"repeat", "bystander"} :
           LET call == StateOf(name)
           IN  call.pc \in {"done", "raised"}
               => /\ call.pc = "done"
                  /\ call.data = alone[1].data
                     => call.parsed_entries = alone[1].parsed_entries
                  /\ call.data = StreamBytes(BystanderInput)
                     => /\ Len(call.parsed_entries) = 2
                        /\ call.parsed_entries[1].pid = 7
                        /\ call.parsed_entries[1].message = <<89>>
                        /\ call.parsed_entries[2].pid = 9
                        /\ call.parsed_entries[2].tag = NA

\* C20 witness: two verbose calls have run interleaved, one on a frame without
\* payload and one on the second thread's stream: the second thread printed the
\* dump of its first frame, then the other call printed its two lines, then the
\* second thread went on; both returned what they return alone
C20_Witness ==
    /\ alone # <<>> /\ alone[1].kind = "concurrent"
    /\ StateOf("repeat").pc = "done" /\ StateOf("bystander").pc = "done"
    /\ StateOf("bystander").data = StreamBytes(BystanderInput)
    /\ Len(StateOf("repeat").parsed_entries) = 1
    /\ Len(StateOf("bystander").parsed_entries) = 2
    /\ Len(stderr) = 8
    /\ stderr[3].kind = "parsed_header"
    /\ stderr[4].kind = "parsed_header"
    /\ stderr[5].kind = "no_payload"
    /\ stderr[6].kind = "skip_zero_length"

----------------------------------------------------------------------------
(* gpio_converter.py *)

\* the name of pin n of 0..159, as the documentation of the pins gives it
NameOfPin(n) ==
    <<48 + (n \div 32), 95, <<97, 98, 99, 100>>[((n % 32) \div 8) + 1], 48 + (n % 8)>>

GpioReturned == gpio_result # <<>>

\* C21: to_gpio_string, for every integer n of 0..159, returns "<n div 32>_<letter><n
\* mod 8>", letter being the ((n mod 32) div 8)-th of a, b, c, d; for every other
\* integer it raises ValueError "Pin number out of range" and returns nothing.
C21_ToGpioString ==
    (gpio_arg.function = "to_gpio_string" /\ GpioReturned)
    => LET n == gpio_arg.pin_number
           r == gpio_result[1]
       IN  IF n \in 0..159
           THEN r.raised = NoException /\ r.value = <<NameOfPin(n)>>
           ELSE /\ r.raised = "ValueError"
                /\ r.message = "Pin number out of range. Must be between 0 and 159."
                /\ r.value = <<>>

\* C21 witness: pin 95 was named "2_d7"
C21_Witness ==
    /\ gpio_arg = [function |-> "to_gpio_string", pin_number |-> 95]
    /\ GpioReturned
    /\ gpio_result[1].value = <<<<50, 95, 100, 55>>>>

\* C22 as stated: to_pin_number returns group * 32 + subgroupIndex * 8 + pin, a
\* value of 0..159, for every string that is a group digit 0..4, an underscore, a
\* subgroup letter a..d and a pin digit 0..7, and raises ValueError "Invalid GPIO
\* string format" for every other string.
C22_ToPinNumber ==
    (gpio_arg.function = "to_pin_number" /\ GpioReturned)
    => LET s == gpio_arg.gpio_string
           r == gpio_result[1]
       IN  IF s \in WellFormedNames
           THEN /\ r.raised = NoException
                /\ r.value = <<(s[1] - 48) * 32 + (s[3] - 97) * 8 + (s[4] - 48)>>
                /\ r.value[1] \in 0..159
           ELSE /\ r.raised = "ValueError"
                /\ r.message = "Invalid GPIO string format. Expected format: 'group_subgroupPin', e.g., '0_a5'."
                /\ r.value = <<>>

\* C22, of the strings that do not end with a newline
C22_ToPinNumber_NoFinalNewline ==
    (gpio_arg.function = "to_pin_number" /\ GpioReturned
        /\ (gpio_arg.gpio_string = <<>>
               \/ gpio_arg.gpio_string[Len(gpio_arg.gpio_string)] # 10))
    => C22_ToPinNumber

----------------------------------------------------------------------------
(* The cursor *)

InLoop == pc \in {"read_prefix", "read_header", "read_payload"}

\* at offset off of the stream there are four bytes with a zero entry_len
ZeroLengthAt(d, off) == off + 4 <= Len(d) /\ EntryLenAt(d, off) = 0

\* at offset off of the stream there is a frame with entry_len >= 20, all its bytes
FullFrameAt(d, off) ==
    /\ off + 4 <= Len(d)
    /\ EntryLenAt(d, off) >= MIN_HEADER_SIZE
    /\ off + EntryLenAt(d, off) <= Len(d)

\* C23: the cursor after the frame at offset O: after a zero-length frame the next
\* frame is read at O + 4; after a frame with entry_len E >= 20 that is there in
\* full the next frame is read at exactly O + E; in every other case no further
\* frame is read: the read that finds the frame short or cut ends the call.  The
\* cursor never moves back, so no frame is read again.
C23_CursorAdvance ==
    [][InLoop =>
         LET O == current_offset'
         IN  /\ pos' >= pos
             /\ IF ZeroLengthAt(data, O)
                THEN pc' = "read_prefix" /\ pos' = O + 4
                ELSE IF FullFrameAt(data, O)
                THEN /\ pc' # "done"
                     /\ pc' = "read_prefix" => pos' = O + EntryLenAt(data, O)
                ELSE /\ pc = "read_prefix" => pc' \in {"read_header", "done"}
                     /\ pc = "read_header" => pc' \in {"read_payload", "done"}
                     /\ pc = "read_payload" => pc' = "done"]_vars

\* C23 witness: after a zero-length frame at 0 the frame at 4 was read in full and
\* the loop is about to read at 4 + entry_len, the end of the stream
C23_Witness ==
    /\ pc = "read_prefix"
    /\ Len(input) = 2 /\ IsZeroPad(input[1])
    /\ Len(parsed_entries) = 1
    /\ current_offset = 4
    /\ entry_len > MIN_HEADER_SIZE
    /\ pos = 4 + entry_len

\* how many bytes a read of n bytes takes from the stream at cursor p
Consumed(p, n) == IF Len(data) - p < n THEN Len(data) - p ELSE n

----------------------------------------------------------------------------
(* The guard on a negative payload_len *)

\* C25: the guard on a negative payload_len is never entered: where payload_len is
\* computed entry_len is in 20..65535, so payload_len = entry_len - 20 is in
\* 0..65515, and neither the warning that skips the entry (verbose) nor the error
\* that halts (not verbose) is ever printed.
C25_NegativeGuardUnreachable ==
    /\ pc \in {"read_header", "read_payload"}
           => entry_len >= MIN_HEADER_SIZE /\ entry_len <= 65535
    /\ payload_len >= 0 /\ payload_len <= 65515
    /\ pc = "read_payload" => payload_len = entry_len - MIN_HEADER_SIZE
    /\ \A j \in DOMAIN stderr : stderr[j].kind # "negative_payload_len"

\* C25 witness: verbose, the header of a frame with entry_len 65535 was read after
\* a frame that gave a record, and payload_len is 65515
C25_Witness ==
    /\ verbose
    /\ pc = "read_payload"
    /\ entry_len = 65535
    /\ payload_len = 65515
    /\ Len(parsed_entries) = 1

----------------------------------------------------------------------------
(* The end of the call *)

\* C26: the stop is final: once the call has stopped, at a clean end of the stream
\* or on a stream-fatal condition (each prints a line of severity Error and stops
\* at once), no further byte is read, no further record is appended and no further
\* line is printed, so what is returned is the list as it was at the stop.
C26_StoppedIsTerminal ==
    /\ [](ErrorLines # {} => Done)
    /\ [][(Done \/ ErrorLines # {})
            => /\ pc' = "done"
               /\ pos' = pos
               /\ parsed_entries' = parsed_entries
               /\ stderr' = stderr]_vars

\* C26 witness: the call stopped on an error after a record, with bytes of the
\* stream left unread
C26_Witness ==
    /\ Done
    /\ ErrorLines # {}
    /\ Len(parsed_entries) >= 1
    /\ pos + MIN_HEADER_SIZE <= Len(data)

----------------------------------------------------------------------------
(* The tag *)

\* the payload bytes of the frame that record k was made from
PayloadOf(k) == SubSeq(data, origins[k].start + MIN_HEADER_SIZE + 1, origins[k].stop)

\* i is the index (from 0) of the first zero byte of payload at index 1 or later
IsTerminator(payload, i) ==
    /\ i >= 1 /\ i < Len(payload)
    /\ payload[i + 1] = 0
    /\ \A j \in 1..(i - 1) : payload[j + 1] # 0

----------------------------------------------------------------------------
(* The offsets of the diagnostics *)

\* offset start is where the walk over the frames of the stream comes to a frame
\* (start is the sum of the lengths of all frames before it) and the call is still
\* reading there
IsFrameStart(start) == start >= 0 /\ start \in FrameBoundaries(data) /\ start <= Len(data)

\* what the line stderr[j] says is so at the offset it names
OffsetAccurate(j) ==
    LET kind == stderr[j].kind
        off  == stderr[j].offset
    IN  CASE kind = "incomplete_prefix" ->
                 /\ IsFrameStart(off)
                 /\ Len(data) - off \in 1..3
          [] kind = "malformed_entry_len" ->
                 /\ IsFrameStart(off)
                 /\ off + 4 <= Len(data)
                 /\ EntryLenAt(data, off) \in 1..(MIN_HEADER_SIZE - 1)
          [] kind = "incomplete_header" ->
                 /\ IsFrameStart(off - 4)
                 /\ EntryLenAt(data, off - 4) >= MIN_HEADER_SIZE
                 /\ Len(data) - (off - 4) \in 4..(MIN_HEADER_SIZE - 1)
          [] kind = "incomplete_payload" ->
                 /\ IsFrameStart(off - MIN_HEADER_SIZE)
                 /\ Len(data) >= off
                 /\ Len(data) < (off - MIN_HEADER_SIZE) + EntryLenAt(data, off - MIN_HEADER_SIZE)
          [] kind = "no_tag_terminator" ->
                 /\ IsFrameStart(off - MIN_HEADER_SIZE)
                 /\ FullFrameAt(data, off - MIN_HEADER_SIZE)
                 /\ LET stop == (off - MIN_HEADER_SIZE) + EntryLenAt(data, off - MIN_HEADER_SIZE)
                    IN  /\ stop > off
                        /\ \A i \in (off + 2)..stop : data[i] # 0
          [] OTHER -> FALSE

\* C28: the offsets of the diagnostics are right: the errors about an entry_len
\* below 20 and about an incomplete header prefix name the offset at which the
\* frame starts (the sum of the lengths of all earlier frames), the error about an
\* incomplete fixed header names that offset plus 4, and the lines about the
\* payload (incomplete payload, no terminator of the tag) name that offset plus 20.
C28_DiagnosticOffsets ==
    \A j \in DOMAIN stderr :
        stderr[j].sev \in {"Error", "Warning"} => OffsetAccurate(j)

\* C28 witness: after a frame and a zero-length frame the stream ends inside the
\* payload of the third frame, and the error names the start of that frame plus 20
C28_Witness ==
    /\ Done
    /\ Len(input) = 3 /\ IsZeroPad(input[2])
    /\ Len(parsed_entries) = 1
    /\ stderr # <<>>
    /\ stderr[Len(stderr)].kind = "incomplete_payload"
    /\ stderr[Len(stderr)].offset = StartOf(input, 3) + MIN_HEADER_SIZE
    /\ StartOf(input, 3) > MIN_HEADER_SIZE

----------------------------------------------------------------------------
(* The integers of the header *)

\* the unsigned number whose two bytes, least significant first, are at off + 1 and
\* off + 2 of the stream
WordAt(off) == data[off + 1] + 256 * data[off + 2]

\* the signed number whose four bytes in two's complement, least significant
\* first, are at off + 1 .. off + 4 of the stream: with the top bit set it is the
\* negative number whose complement the inverted bytes are
SignedAt(off) ==
    IF data[off + 4] < 128
    THEN WordAt(off) + 65536 * WordAt(off + 2)
    ELSE (0 - 1) - ((65535 - WordAt(off)) + 65536 * (65535 - WordAt(off + 2)))

\* the unsigned 32-bit number at off + 1 .. off + 4 of the stream, in halves
UnsignedAt(off) == [hi |-> WordAt(off + 2), lo |-> WordAt(off)]

IsU16(n) == n >= 0 /\ n <= 65535

IsI32(n) == n >= (0 - 2147483647) - 1 /\ n <= 2147483647

IsU32(v) == IsU16(v.hi) /\ IsU16(v.lo)

----------------------------------------------------------------------------
(* One record per frame *)

\* the starts of the frames with entry_len >= 20 that have been read in full
FramesRead ==
    {b \in FrameBoundaries(data) :
        FullFrameAt(data, b) /\ b + EntryLenAt(data, b) <= pos}

\* C30: a frame with entry_len >= 20 whose bytes are all there always appends
\* exactly one record: the outcome that skips the record (a payload too short for
\* the priority byte, or a fault while the payload is decoded) is reached for no
\* payload, so there are as many records as frames with entry_len >= 20 read in
\* full, one from each.
C30_OneRecordPerFrame ==
    /\ Len(origins) = Len(parsed_entries)
    /\ \A j \in DOMAIN stderr :
           stderr[j].kind \notin {"payload_too_short", "payload_parse_error"}
    /\ LET read == FramesRead
       IN  /\ Len(parsed_entries) = Cardinality(read)
           /\ {origins[k].start : k \in DOMAIN origins} = read

\* C30 witness: a frame whose payload is three bytes FF, without priority in the
\* table, without terminator and not UTF-8, has given its record
C30_Witness ==
    /\ Done
    /\ Len(parsed_entries) = 1 /\ Len(origins) = 1
    /\ PayloadOf(1) = <<255, 255, 255>>
    /\ FramesRead = {0}

----------------------------------------------------------------------------
(* The two conversions of gpio_converter.py, one after the other *)

\* C33: to_gpio_string and to_pin_number are bijections, inverse to each other,
\* between the integers 0..159 and the 160 names of the form group, '_', subgroup,
\* pin: to_gpio_string maps 0..159 into the names and to_pin_number the names into
\* 0..159, to_pin_number(to_gpio_string(n)) = n for every n of 0..159 and
\* to_gpio_string(to_pin_number(s)) = s for every name s.
C33_MutuallyInverse ==
    /\ Cardinality(WellFormedNames) = 160
    /\ (gpio_arg.function = "to_gpio_string" /\ GpioReturned)
           => (gpio_arg.pin_number \in 0..159
               => /\ gpio_result[1].raised = NoException
                  /\ gpio_result[1].value[1] \in WellFormedNames
                  /\ Len(gpio_result) = 2 => gpio_result[2] = Returned(gpio_arg.pin_number))
    /\ (gpio_arg.function = "to_pin_number" /\ GpioReturned)
           => (gpio_arg.gpio_string \in WellFormedNames
               => /\ gpio_result[1].raised = NoException
                  /\ gpio_result[1].value[1] \in 0..159
                  /\ Len(gpio_result) = 2 => gpio_result[2] = Returned(gpio_arg.gpio_string))

\* C33 witness: "4_d7" went to 159 and back to "4_d7"
C33_Witness ==
    /\ gpio_arg = [function |-> "to_pin_number", gpio_string |-> <<52, 95, 100, 55>>]
    /\ gpio_result = <<Returned(159), Returned(<<52, 95, 100, 55>>)>>

----------------------------------------------------------------------------
(* A stream and its prefixes *)

\* C31: the records of a prefix are a prefix of the records: for every stream S and
\* every k <= len(S) the call on the first k bytes of S returns a list that is a
\* prefix of the list the call on S returns (and so is its list at every moment);
\* and a record is appended only once all entry_len bytes of its frame are read.
C31_PrefixMonotone ==
    /\ Repeating("prefix")
           => /\ data = Take(alone[1].data, Len(data))
              /\ Len(parsed_entries) <= Len(alone[1].parsed_entries)
              /\ parsed_entries = SubSeq(alone[1].parsed_entries, 1, Len(parsed_entries))
              /\ pc # "raised"
    /\ Len(origins) = Len(parsed_entries)
    /\ \A k \in DOMAIN origins :
           /\ origins[k].stop <= pos
           /\ origins[k].stop <= Len(data)
           /\ origins[k].stop = origins[k].start + EntryLenAt(data, origins[k].start)

\* C31 witness: of a stream that gave two records the call on a prefix, cut inside
\* the payload of the second frame, has returned the first record alone
C31_Witness ==
    /\ Repeating("prefix") /\ Done
    /\ Len(alone[1].parsed_entries) = 2
    /\ Len(parsed_entries) = 1
    /\ Len(data) < Len(alone[1].data)
    /\ stderr # <<>> /\ stderr[Len(stderr)].kind = "incomplete_payload"

----------------------------------------------------------------------------
(* A file-like object handed over by the caller *)

\* the frames of the segments ds that lie whole within the first n bytes of them
WholeFramesWithin(ds, n) ==
    {i \in DOMAIN ds : IsWholeFrame(ds[i]) /\ StartOf(ds, i + 1) <= n}

\* C32: a file-like object passed by the caller is closed by the call on every way
\* out of it (the end of the file, a fatal stop, an exception of the object, absorbed
\* or not) and open until then; its cursor is left where the reading stopped, never
\* put back to where the caller had it; and decoding starts at the position the
\* object had when it was passed, not at its first byte: records, diagnostics and
\* the cursor lie at or after that position, and the records are those of the
\* frames that follow it.
C32_StreamClosedWhereLeft ==
    LET at_call == stream.at_call
    IN  /\ ~is_file_path => (stream.closed <=> Ended)
        /\ pos >= at_call
        /\ (Ended /\ fault = NoFault /\ Len(data) > at_call) => pos > at_call
        /\ \A k \in DOMAIN origins :
               /\ origins[k].start >= at_call
               /\ origins[k].start \in BoundariesFrom(data, at_call)
        /\ \A j \in DOMAIN stderr : stderr[j].offset = -1 \/ stderr[j].offset >= at_call
        /\ (Ended /\ fault = NoFault /\ input \in PlainSeqs)
               => /\ Len(parsed_entries)
                         = Cardinality(WholeFramesWithin(input, Len(data) - at_call))
                  /\ {origins[k].start - at_call : k \in DOMAIN origins}
                         = {StartOf(input, i) :
                                i \in WholeFramesWithin(input, Len(data) - at_call)}

\* C32 witness: an object handed over five bytes in has been closed by a call that
\* returned a record of the frame at offset 5 and stopped on an error further on
C32_Witness ==
    /\ Done /\ ~is_file_path
    /\ stream = [at_call |-> 5, closed |-> TRUE]
    /\ Len(parsed_entries) >= 1
    /\ origins[1].start = 5
    /\ ErrorLines # {}
    /\ pos > origins[1].stop

====
